---- MODULE Spec2Model ----
(***************************************************************************)
(* Model of wikijs_mcp.py: the WikiJsClient GraphQL adapter and the four   *)
(* MCP tools built on it (search_wiki, get_page, update_page, create_page).*)
(*                                                                         *)
(* A Python string is a sequence of chunks (TLA+ strings); an f-string is  *)
(* the concatenation of its literal chunks and of its rendered values.     *)
(* Literals that begin with the word Error carry it as their first chunk,  *)
(* so str.startswith("Error") is a prefix test on chunks.                  *)
(* A Python value is a tagged record: t is one of none, str, dict, list.   *)
(* The outcome of a call is the value it returned or the exception it      *)
(* raised.                                                                 *)
(***************************************************************************)
EXTENDS Integers, Sequences, FiniteSets, TLC

\* ------------------------------------------------------------------ bounds
\* Longest identifier / page_id argument, in characters.
MaxIdLen == 1
\* Longest GraphQL error list of a response.
MaxErrors == 2
\* Longest search result list of a response.
MaxResults == 1
\* Tool calls per behaviour.
MaxCalls == 1
\* Writes by other clients of the wiki while an update is between its read
\* and its mutation, per behaviour.
MaxOtherWrites == 1

\* -------------------------------------------------------- program constants
\* response.status_code != 200
HttpOk == 200
\* error code Wiki.js reports for a page that does not exist
NotFoundCode == 6003

\* ------------------------------------------------------------- Python values
JNull == "<null>"

PyNone == [t |-> "none"]
PyStr(s) == [t |-> "str", v |-> s]
PyDict(d) == [t |-> "dict", v |-> d]
PyList(l) == [t |-> "list", v |-> l]

Return(val) == [val |-> val, k |-> "return", exc |-> "-"]
Raise(e) == [val |-> PyNone, k |-> "raise", exc |-> e]
\* No call has ended yet.
NoOutcome == [val |-> PyNone, k |-> "none", exc |-> "-"]

\* isinstance(x, str) and x.startswith("Error")
StartsWith(s, p) == Len(s) >= Len(p) /\ SubSeq(s, 1, Len(p)) = p

IsErrorStr(x) == x.t = "str" /\ StartsWith(x.v, <<"Error">>)

\* Python truthiness: not x
Falsy(x) ==
    \/ x.t = "none"
    \/ x.t = "str" /\ x.v = <<>>
    \/ x.t = "list" /\ x.v = <<>>
    \/ x.t = "dict" /\ DOMAIN x.v = {}

\* bool(v) of a JSON scalar held in a dict: None and "" are false.
Truthy(v) == v # JNull /\ v # ""

\* dict.get(key, default)
DictGet(d, key, default) == IF key \in DOMAIN d THEN d[key] ELSE default

\* ------------------------------------------------------------ int(identifier)
Chars == {"1", "2", "x", "-"}
Digits == {"1", "2"}

RECURSIVE SeqsUpTo(_, _)
SeqsUpTo(S, n) ==
    IF n = 0 THEN {<<>>}
    ELSE LET shorter == SeqsUpTo(S, n - 1)
         IN shorter \cup {Append(s, c) : s \in {x \in shorter : Len(x) = n - 1}, c \in S}

Identifiers == SeqsUpTo(Chars, MaxIdLen)

RECURSIVE LStrip(_)
LStrip(s) == IF s # <<>> /\ Head(s) = " " THEN LStrip(Tail(s)) ELSE s

RECURSIVE RStrip(_)
RStrip(s) ==
    IF s # <<>> /\ s[Len(s)] = " " THEN RStrip(SubSeq(s, 1, Len(s) - 1)) ELSE s

DigitVal(c) == IF c = "1" THEN 1 ELSE 2

RECURSIVE DigitsVal(_)
DigitsVal(s) ==
    IF s = <<>> THEN 0
    ELSE 10 * DigitsVal(SubSeq(s, 1, Len(s) - 1)) + DigitVal(s[Len(s)])

\* int(s): surrounding whitespace is dropped, one optional sign, then one or
\* more digits; anything else raises ValueError.
IntParse(s) ==
    LET t == RStrip(LStrip(s))
        neg == t # <<>> /\ Head(t) = "-"
        body == IF neg THEN Tail(t) ELSE t
        ok == body # <<>> /\ \A i \in 1..Len(body) : body[i] \in Digits
    IN [val |-> IF ok THEN (IF neg THEN 0 - DigitsVal(body) ELSE DigitsVal(body))
                ELSE 0,
        ok |-> ok]

DigitChar(d) == <<"0", "1", "2", "3", "4", "5", "6", "7", "8", "9">>[d + 1]

RECURSIVE NatStr(_)
NatStr(n) ==
    IF n < 10 THEN <<DigitChar(n)>> ELSE Append(NatStr(n \div 10), DigitChar(n % 10))

\* str(n) of an int, as f-strings render it.
IntStr(n) == IF n < 0 THEN <<"-">> \o NatStr(0 - n) ELSE NatStr(n)

\* ------------------------------------------------------------- HTTP responses
\* A nested lookup d[k1][k2]...[kn] is described by where it ends: the keys
\* before `depth` hold objects, and key number `depth` is absent, holds null,
\* or (depth = n only) holds the value looked for.
Shape(depth, end) == [depth |-> depth, end |-> end]

\* d.get(k1, {}).get(k2, {})....get(kn): an absent key yields the default and
\* in the end None; null under an inner key is returned by get and the next
\* .get on it raises AttributeError.
GetChain(sh, n) ==
    IF sh.end = "value" THEN "value"
    ELSE IF sh.end = "absent" THEN "none"
    ELSE IF sh.depth = n THEN "none"
    ELSE "AttributeError"

\* d[k1][k2]...[kn]: an absent key raises KeyError, a subscript of None raises
\* TypeError.
IndexChain(sh, n) ==
    IF sh.end = "value" THEN "value"
    ELSE IF sh.end = "absent" THEN "KeyError"
    ELSE IF sh.depth = n THEN "none"
    ELSE "TypeError"

\* "k1" not in d or "k2" not in d[k1] or ... (m keys): `in` on None raises
\* TypeError.
InChain(sh, m) ==
    IF sh.depth <= m /\ sh.end = "absent" THEN "missing"
    ELSE IF sh.depth < m /\ sh.end = "null" THEN "TypeError"
    ELSE "present"

\* Entries of a GraphQL error list, by where the lookup
\* extensions.exception.code ends. Per the GraphQL response format an
\* entry's extensions, when present, is a map.
ErrorEntries ==
    {[depth |-> 3, end |-> "value", code |-> NotFoundCode, repr |-> "{6003}"],
     [depth |-> 3, end |-> "value", code |-> 6013, repr |-> "{6013}"],
     [depth |-> 1, end |-> "absent", code |-> 0, repr |-> "{no extensions}"]}

\* An error list, when present, is not empty.
ErrorLists == SeqsUpTo(ErrorEntries, MaxErrors) \ {<<>>}

RECURSIVE JoinRepr(_)
JoinRepr(l) ==
    IF l = <<>> THEN <<>>
    ELSE IF Len(l) = 1 THEN <<l[1].repr>>
    ELSE <<l[1].repr, ", ">> \o JoinRepr(Tail(l))

\* f"{data['errors']}"
ErrorsRepr(errors) == <<"[">> \o JoinRepr(errors) \o <<"]">>

\* f"{v}" of a JSON scalar
Fmt(v) == IF v = JNull THEN "None" ELSE v

NoLeaf == [none |-> TRUE]

Response(net, status, text, parses, hasErrors, errors, shape, leaf) ==
    [errors |-> errors, net |-> net, status |-> status, text |-> text,
     parses |-> parses, hasErrors |-> hasErrors, shape |-> shape, leaf |-> leaf]

\* client.post raised (connection refused, timeout, ...)
NetFailure == Response("fail", 0, "", FALSE, FALSE, <<>>, Shape(1, "absent"), NoLeaf)

Statuses == {HttpOk, 201, 500}

HttpErrors ==
    {Response("ok", st, "body", FALSE, FALSE, <<>>, Shape(1, "absent"), NoLeaf) :
        st \in Statuses \ {HttpOk}}

\* status 200 with a body that is not JSON
Unparseable == Response("ok", HttpOk, "<html>", FALSE, FALSE, <<>>, Shape(1, "absent"), NoLeaf)

WithErrors(errs) ==
    Response("ok", HttpOk, "json", TRUE, TRUE, errs, Shape(1, "null"), NoLeaf)

\* status 200, no error list, the result path broken at `sh`
Broken(sh) == Response("ok", HttpOk, "json", TRUE, FALSE, <<>>, sh, NoLeaf)

\* status 200, no error list, the result present
Good(n, leaf) == Response("ok", HttpOk, "json", TRUE, FALSE, <<>>, Shape(n, "value"), leaf)

BrokenShapes(n) == {Shape(d, e) : d \in 1..n, e \in {"absent", "null"}}

\* ---------------------------------------------------------------- the client
TransportError(resp) ==
    PyStr(<<"Error", ": ">> \o IntStr(resp.status) \o <<" - ", resp.text>>)

ApiError(resp) == PyStr(<<"GraphQL Error: ">> \o ErrorsRepr(resp.errors))

search_pages(resp) ==
    IF resp.net = "fail" THEN Raise("ConnectError")
    ELSE IF resp.status # HttpOk THEN Return(TransportError(resp))
    ELSE IF ~resp.parses THEN Raise("JSONDecodeError")
    ELSE IF resp.hasErrors THEN Return(ApiError(resp))
    ELSE LET r == IndexChain(resp.shape, 4)
         IN IF r = "value" THEN Return(PyList(resp.leaf))
            ELSE IF r = "none" THEN Return(PyNone)
            ELSE Raise(r)

\* The scan with a fault: it looks at the first entry only.
ScanErrorsFirstOnly(errors) ==
    IF errors = <<>> THEN "unmatched"
    ELSE LET r == GetChain(Head(errors), 3)
         IN IF r = "AttributeError" THEN "AttributeError"
            ELSE IF r = "value" /\ Head(errors).code = NotFoundCode THEN "sentinel"
            ELSE "unmatched"

\* for error in data["errors"]: if error.get("extensions", {})
\*     .get("exception", {}).get("code") == 6003: return None
RECURSIVE ScanErrors(_)
ScanErrors(errors) ==
    IF errors = <<>> THEN "unmatched"
    ELSE LET r == GetChain(Head(errors), 3)
         IN IF r = "AttributeError" THEN "AttributeError"
            ELSE IF r = "value" /\ Head(errors).code = NotFoundCode THEN "sentinel"
            ELSE ScanErrors(Tail(errors))

\* Lines 98-119 and 146-167: the two reads classify alike.
ClassifyRead(resp) ==
    IF resp.net = "fail" THEN Raise("ConnectError")
    ELSE IF resp.status # HttpOk THEN Return(TransportError(resp))
    ELSE IF ~resp.parses THEN Raise("JSONDecodeError")
    ELSE IF resp.hasErrors THEN
        LET s == ScanErrors(resp.errors)
        IN IF s = "sentinel" THEN Return(PyNone)
           ELSE IF s = "unmatched" THEN Return(ApiError(resp))
           ELSE Raise(s)
    ELSE LET r == GetChain(resp.shape, 3)
         IN IF r = "value" THEN Return(PyDict(resp.leaf))
            ELSE IF r = "none" THEN Return(PyNone)
            ELSE Raise(r)

get_page_by_id(resp) == ClassifyRead(resp)

get_page_by_path(resp) == ClassifyRead(resp)

\* Lines 247-280 and 368-391: status, JSON, error list, the three `not in`
\* tests, then responseResult; `exc` is what the body raises, if it does.
MutationResult(resp) ==
    IF resp.net = "fail" THEN "ConnectError"
    ELSE IF resp.status # HttpOk THEN "http"
    ELSE IF ~resp.parses THEN "JSONDecodeError"
    ELSE IF resp.hasErrors THEN "errors"
    ELSE IF InChain(resp.shape, 3) # "present" THEN InChain(resp.shape, 3)
    ELSE IF IndexChain(resp.shape, 4) = "none" THEN "TypeError"
    ELSE IndexChain(resp.shape, 4)

\* The body of create_page's try block, lines 191-280.
create_page_try(resp) ==
    LET r == MutationResult(resp)
    IN IF r = "http" THEN
           Return(PyStr(<<"HTTP Error: ">> \o IntStr(resp.status) \o <<" - ", resp.text>>))
       ELSE IF r = "errors" THEN Return(ApiError(resp))
       ELSE IF r = "missing" THEN Return(PyStr(<<"Unexpected response structure: ", "{...}">>))
       ELSE IF r = "value" THEN
           IF resp.leaf.succeeded THEN
               IF resp.leaf.pageNull THEN Raise("TypeError")
               ELSE Return(PyStr(<<"Page created successfully with ID: ">>
                                   \o IntStr(resp.leaf.pageId)))
           ELSE Return(PyStr(<<"Failed to create page: ", Fmt(resp.leaf.message)>>))
       ELSE Raise(r)

\* create_page with a fault: no except clause, the exception gets out.
create_page_nocatch(resp) == create_page_try(resp)

\* WikiJsClient.create_page: except Exception as e, lines 282-285. The
\* exception's name stands for str(e).
WikiJsClient_create_page(resp) ==
    LET o == create_page_try(resp)
    IN IF o.k = "raise" THEN Return(PyStr(<<"Exception during page creation: ", o.exc>>))
       ELSE o

Send(vars) == [val |-> PyNone, k |-> "send", exc |-> "-", vars |-> vars]

\* The variables with a fault: isPublished is left to the default, false.
UpdateVariables_unpublished(page_id, d, content) ==
    [content |-> content,
     id |-> page_id,
     title |-> DictGet(d, "title", ""),
     description |-> DictGet(d, "description", ""),
     editor |-> "markdown",
     locale |-> "en",
     isPrivate |-> FALSE,
     isPublished |-> FALSE,
     path |-> DictGet(d, "path", <<>>),
     tags |-> <<>>]

\* The variables with a fault: the title is not taken from the fetched page.
UpdateVariables_notitle(page_id, d, content) ==
    [content |-> content,
     id |-> page_id,
     title |-> "",
     description |-> DictGet(d, "description", ""),
     editor |-> "markdown",
     locale |-> "en",
     isPrivate |-> FALSE,
     isPublished |-> TRUE,
     path |-> DictGet(d, "path", <<>>),
     tags |-> <<>>]

\* WikiJsClient.update_page, lines 297-308.
UpdateVariables(page_id, d, content) ==
    [content |-> content,
     id |-> page_id,
     title |-> DictGet(d, "title", ""),
     description |-> DictGet(d, "description", ""),
     editor |-> "markdown",
     locale |-> "en",
     isPrivate |-> FALSE,
     isPublished |-> TRUE,
     path |-> DictGet(d, "path", <<>>),
     tags |-> <<>>]

\* update_page with a fault: a missing page is taken for an empty one
\* (page = page or {}).
update_page_prelim_nonone(read, page_id, content) ==
    IF read.k = "raise" THEN read
    ELSE IF IsErrorStr(read.val) THEN Return(read.val)
    ELSE IF read.val.t = "none" THEN Send(UpdateVariables(page_id, <<>>, content))
    ELSE IF read.val.t # "dict" THEN Raise("AttributeError")
    ELSE Send(UpdateVariables(page_id, read.val.v, content))

\* update_page with a fault: the description is sent as create_page's
\* default, "".
update_page_prelim_nodesc(read, page_id, content) ==
    IF read.k = "raise" THEN read
    ELSE IF IsErrorStr(read.val) THEN Return(read.val)
    ELSE IF read.val.t = "none" THEN
        Return(PyStr(<<"Error", ": No page found with ID: ">> \o IntStr(page_id)))
    ELSE IF read.val.t # "dict" THEN Raise("AttributeError")
    ELSE Send([UpdateVariables(page_id, read.val.v, content) EXCEPT !.description = ""])

\* WikiJsClient.update_page, lines 290-308: what follows the read. `read` is
\* the outcome of get_page_by_id. page.get on a str raises AttributeError.
update_page_prelim(read, page_id, content) ==
    IF read.k = "raise" THEN read
    ELSE IF IsErrorStr(read.val) THEN Return(read.val)
    ELSE IF read.val.t = "none" THEN
        Return(PyStr(<<"Error", ": No page found with ID: ">> \o IntStr(page_id)))
    ELSE IF read.val.t # "dict" THEN Raise("AttributeError")
    ELSE Send(UpdateVariables(page_id, read.val.v, content))

\* WikiJsClient.update_page, lines 368-391: the mutation's response.
update_page_result(resp) ==
    LET r == MutationResult(resp)
    IN IF r = "http" THEN Return(TransportError(resp))
       ELSE IF r = "errors" THEN Return(ApiError(resp))
       ELSE IF r = "missing" THEN Return(PyStr(<<"Unexpected response structure from API">>))
       ELSE IF r = "value" THEN
           IF resp.leaf.succeeded
           THEN Return(PyStr(<<"Page updated successfully: ">> \o resp.leaf.slug))
           ELSE Return(PyStr(<<"Failed to update page: ", Fmt(resp.leaf.message)>>))
       ELSE Raise(r)

\* ----------------------------------------------------------------- the tools
RECURSIVE FormatResults(_)
FormatResults(results) ==
    IF results = <<>> THEN <<>>
    ELSE LET page == Head(results)
             line == <<"\n- ID: ">> \o IntStr(page.id) \o <<", Title: ", Fmt(page.title),
                       ", Path: ">> \o page.path
             desc == IF Truthy(DictGet(page, "description", JNull))
                     THEN <<"\n  Description: ", page.description>>
                     ELSE <<>>
         IN line \o desc \o FormatResults(Tail(results))

NoResultsMessage == <<"No results found">>

\* search_wiki, lines 410-427: what follows the client call. `results` is
\* the outcome of search_pages. Iterating a str yields its characters, and
\* page['id'] on a character raises TypeError.
search_wiki(results) ==
    IF results.k = "raise" THEN results
    ELSE IF IsErrorStr(results.val) THEN Return(results.val)
    ELSE IF Falsy(results.val) THEN Return(PyStr(NoResultsMessage))
    ELSE IF results.val.t = "str" THEN Raise("TypeError")
    ELSE Return(PyStr(<<"Search results:">> \o FormatResults(results.val.v)))

\* json.JSONDecodeError is a subclass of ValueError.
IsValueError(e) == e \in {"ValueError", "JSONDecodeError"}

NotNumericMessage ==
    <<"Error", ": When by_path is False, identifier must be a numeric ID">>

NoPageMessage(identifier, by_path) ==
    <<"No page found with ", IF by_path THEN "path" ELSE "ID", ": ">> \o identifier

FormatPage(d) ==
    <<"\nTitle: ", Fmt(DictGet(d, "title", "No title")), "\nPath: ">>
    \o DictGet(d, "path", <<"No path">>)
    \o <<"\nID: ">> \o (IF "id" \in DOMAIN d THEN IntStr(d.id) ELSE <<"No ID">>)
    \o <<"\nLast Updated: ", Fmt(DictGet(d, "updatedAt", "No update time")),
         "\nDescription: ", Fmt(DictGet(d, "description", "No description")),
         "\n\nContent:\n", Fmt(DictGet(d, "content", "No content")), "\n">>

\* get_page, lines 449-477: what follows the client call. `page` is the
\* outcome of get_page_by_id or get_page_by_path; by id, the call sits inside
\* the try block whose except ValueError answers the identifier message.
get_page(page, identifier, by_path) ==
    IF page.k = "raise" THEN
        IF ~by_path /\ IsValueError(page.exc) THEN Return(PyStr(NotNumericMessage))
        ELSE page
    ELSE IF IsErrorStr(page.val) THEN Return(page.val)
    ELSE IF Falsy(page.val) THEN Return(PyStr(NoPageMessage(identifier, by_path)))
    ELSE IF page.val.t # "dict" THEN
        Return(PyStr(<<"Unexpected response format: ">> \o page.val.v))
    ELSE Return(PyStr(FormatPage(page.val.v)))

\* A GraphQL request: the operation's name and its variables.
Request(op, vars) == [vars |-> vars, op |-> op]

\* get_page with a fault: an identifier that is no number is looked up by
\* path.
get_page_entry_fallback(identifier, by_path) ==
    IF by_path \/ ~IntParse(identifier).ok
    THEN Send(Request("singleByPath", [locale |-> "en", path |-> identifier]))
    ELSE Send(Request("single", [id |-> IntParse(identifier).val]))

\* get_page, lines 442-451, down to the client call: the request it sends, or
\* the message it returns without sending one.
get_page_entry(identifier, by_path) ==
    IF by_path
    THEN Send(Request("singleByPath", [locale |-> "en", path |-> identifier]))
    ELSE IF IntParse(identifier).ok
    THEN Send(Request("single", [id |-> IntParse(identifier).val]))
    ELSE Return(PyStr(NotNumericMessage))

PageIdMessage == <<"Error", ": page_id must be a numeric ID">>

\* update_page (tool), lines 498-506, down to the read that
\* WikiJsClient.update_page starts with.
update_page_entry(page_id) ==
    IF IntParse(page_id).ok
    THEN Send(Request("single", [id |-> IntParse(page_id).val]))
    ELSE Return(PyStr(PageIdMessage))

\* WikiJsClient.create_page, lines 171-185.
CreateVariables(title, content, path, description) ==
    [content |-> content, title |-> title, description |-> description,
     editor |-> "markdown", locale |-> "en", isPrivate |-> FALSE,
     isPublished |-> TRUE, path |-> path, tags |-> <<>>,
     scriptCss |-> "", scriptJs |-> "",
     publishStartDate |-> JNull, publishEndDate |-> JNull]

\* ------------------------------------------------------------------ the wiki
PageIds == {1, 2}
Titles == {"T1", "T2"}
Descriptions == {"", JNull, "D1"}
Contents == {"c1", "c2"}
Paths == {<<"x">>, <<"2">>}
Queries == {"q"}

NoPage ==
    [content |-> "", title |-> "", description |-> "", isPrivate |-> FALSE,
     isPublished |-> FALSE, path |-> <<>>, tags |-> <<>>, exists |-> FALSE]

NoCall ==
    [content |-> "", title |-> "", description |-> "", path |-> <<>>,
     identifier |-> <<>>, by_path |-> FALSE, tool |-> "none", query |-> ""]

VARIABLES
    store,        \* the wiki's pages, by id
    pc,           \* idle: no call runs; wait: a request is out; recv: answered
    call,         \* the tool call that runs, or ran last
    reqs,         \* the requests the call has sent, in order
    resps,        \* the responses to them
    open,         \* the requests whose httpx.AsyncClient is open
    clientOut,    \* what the call's first client method returned or raised
    ret,          \* what the tool returned or raised
    calls,        \* tool calls so far
    otherWrites,  \* writes by other clients so far
    dirty,        \* another client wrote since the call began
    changed,      \* what it changed: <<page id, field, value written>>
    readPage      \* the wiki's page as it stood when the call's read was served

vars == <<store, pc, call, reqs, resps, open, clientOut, ret, calls, otherWrites, dirty,
          changed, readPage>>

Init ==
    /\ store \in {[i \in PageIds |->
                     IF i = 1
                     THEN [content |-> "c0", title |-> "T1", description |-> d,
                           isPrivate |-> f.private, isPublished |-> ~f.private, path |-> <<"x">>,
                           tags |-> f.tags, exists |-> TRUE]
                     ELSE IF second
                     THEN [content |-> "c0", title |-> "T2", description |-> "D1",
                           isPrivate |-> FALSE, isPublished |-> TRUE, path |-> <<"1">>,
                           tags |-> <<>>, exists |-> TRUE]
                     ELSE NoPage] :
                  d \in Descriptions,
                  f \in {[tags |-> <<>>, private |-> FALSE],
                         [tags |-> <<"tag">>, private |-> TRUE]},
                  second \in BOOLEAN}
    /\ pc = "idle"
    /\ call = NoCall
    /\ reqs = <<>>
    /\ resps = <<>>
    /\ open = {}
    /\ clientOut = NoOutcome
    /\ ret = NoOutcome
    /\ calls = 0
    /\ otherWrites = 0
    /\ dirty = FALSE
    /\ changed = {}
    /\ readPage = NoPage

PageExists(id) == id \in PageIds /\ store[id].exists

PageDict(id) ==
    [content |-> store[id].content, id |-> id, title |-> store[id].title,
     description |-> store[id].description, path |-> store[id].path, updatedAt |-> "t"]

SearchItem(id) ==
    [id |-> id, title |-> store[id].title, description |-> store[id].description,
     path |-> store[id].path]

\* The ids a read asks for: single(id), singleByPath(path).
Asked(req) ==
    IF req.op = "single" THEN {i \in PageIds : store[i].exists /\ i = req.vars.id}
    ELSE {i \in PageIds : store[i].exists /\ store[i].path = req.vars.path}

HasSentinel(errs) == \E i \in 1..Len(errs) : errs[i].code = NotFoundCode

\* A tool call begins: the first request goes out, or the call returns.
Begin(c, entry) ==
    /\ pc = "idle"
    /\ calls < MaxCalls
    /\ calls' = calls + 1
    /\ call' = c
    /\ resps' = <<>>
    /\ clientOut' = NoOutcome
    /\ dirty' = FALSE
    /\ changed' = {}
    /\ readPage' = NoPage
    /\ IF entry.k = "send"
       THEN /\ reqs' = <<entry.vars>>
            /\ open' = {1}
            /\ pc' = "wait"
            /\ ret' = NoOutcome
       ELSE /\ reqs' = <<>>
            /\ open' = {}
            /\ pc' = "idle"
            /\ ret' = entry
    /\ UNCHANGED <<store, otherWrites>>

search_wiki_call ==
    \E q \in Queries :
        Begin([NoCall EXCEPT !.tool = "search_wiki", !.query = q],
              Send(Request("search", [query |-> q])))

get_page_call ==
    \E identifier \in Identifiers, by_path \in BOOLEAN :
        Begin([NoCall EXCEPT !.tool = "get_page", !.identifier = identifier,
                             !.by_path = by_path],
              get_page_entry(identifier, by_path))

update_page_call ==
    \E page_id \in Identifiers, content \in Contents :
        Begin([NoCall EXCEPT !.tool = "update_page", !.identifier = page_id,
                             !.content = content],
              update_page_entry(page_id))

create_page_call ==
    \E title \in {"T1"}, content \in {"c1"}, path \in Paths, description \in {"", "D1"} :
        Begin([NoCall EXCEPT !.tool = "create_page", !.title = title,
                             !.content = content, !.path = path,
                             !.description = description],
              Send(Request("create", CreateVariables(title, content, path, description))))

CurrentReq == reqs[Len(reqs)]

Answer(resp) ==
    /\ resps' = Append(resps, resp)
    /\ pc' = "recv"
    /\ UNCHANGED <<call, reqs, open, clientOut, ret, calls, otherWrites, dirty, changed>>

\* The request fails in transport, or the server answers it with an HTTP
\* error status, a body that is not JSON, an error list, or a body without
\* the result. An error list names the missing page only for a read of a
\* page that is not there.
ServerFault ==
    /\ pc = "wait"
    /\ \E resp \in {NetFailure, Unparseable} \cup HttpErrors
                   \cup {WithErrors(e) : e \in ErrorLists}
                   \cup {Broken(sh) : sh \in BrokenShapes(4)} :
        /\ resp.hasErrors /\ HasSentinel(resp.errors) =>
               CurrentReq.op \in {"single", "singleByPath"} /\ Asked(CurrentReq) = {}
        /\ resp.shape.depth = 4 => CurrentReq.op \notin {"single", "singleByPath"}
        /\ Answer(resp)
    /\ UNCHANGED <<store, readPage>>

\* pages.single / pages.singleByPath of a page that exists.
ServerRead ==
    /\ pc = "wait"
    /\ CurrentReq.op \in {"single", "singleByPath"}
    /\ \E i \in Asked(CurrentReq) :
        /\ Answer(Good(3, PageDict(i)))
        /\ readPage' = store[i]
    /\ UNCHANGED store

\* pages.search: some of the pages, in the server's order.
ServerSearch ==
    /\ pc = "wait"
    /\ CurrentReq.op = "search"
    /\ \E ids \in SeqsUpTo({i \in PageIds : store[i].exists}, MaxResults) :
        /\ \A i, j \in 1..Len(ids) : i # j => ids[i] # ids[j]
        /\ Answer(Good(4, [i \in 1..Len(ids) |-> SearchItem(ids[i])]))
    /\ UNCHANGED <<store, readPage>>

MutationLeaf(succeeded, slug, message, pageNull, pageId) ==
    [succeeded |-> succeeded, pageNull |-> pageNull, pageId |-> pageId,
     message |-> message, slug |-> slug]

\* pages.create succeeds: the page gets a free id.
ServerCreate ==
    /\ pc = "wait"
    /\ CurrentReq.op = "create"
    /\ \E i \in PageIds :
        /\ ~store[i].exists
        /\ \A j \in PageIds : store[j].exists => store[j].path # CurrentReq.vars.path
        /\ store' = [store EXCEPT ![i] =
                        [content |-> CurrentReq.vars.content, title |-> CurrentReq.vars.title,
                         description |-> CurrentReq.vars.description,
                         isPrivate |-> CurrentReq.vars.isPrivate,
                         isPublished |-> CurrentReq.vars.isPublished, path |-> CurrentReq.vars.path,
                         tags |-> CurrentReq.vars.tags,
                         exists |-> TRUE]]
        /\ Answer(Good(4, MutationLeaf(TRUE, CurrentReq.vars.path, "ok", FALSE, i)))
    /\ UNCHANGED readPage

\* pages.update succeeds: the page takes every field of the request.
ServerUpdate ==
    /\ pc = "wait"
    /\ CurrentReq.op = "update"
    /\ PageExists(CurrentReq.vars.id)
    /\ store' = [store EXCEPT ![CurrentReq.vars.id] =
                    [content |-> CurrentReq.vars.content, title |-> CurrentReq.vars.title,
                     description |-> CurrentReq.vars.description,
                     isPrivate |-> CurrentReq.vars.isPrivate,
                     isPublished |-> CurrentReq.vars.isPublished, path |-> CurrentReq.vars.path,
                     tags |-> CurrentReq.vars.tags,
                     exists |-> TRUE]]
    /\ Answer(Good(4, MutationLeaf(TRUE, CurrentReq.vars.path, "ok", FALSE,
                                   CurrentReq.vars.id)))
    /\ UNCHANGED readPage

\* A mutation is refused: responseResult.succeeded is false, page is null.
ServerRefuse ==
    /\ pc = "wait"
    /\ CurrentReq.op \in {"create", "update"}
    /\ \E m \in {"path taken", JNull} :
        Answer(Good(4, MutationLeaf(FALSE, JNull, m, TRUE, 0)))
    /\ UNCHANGED <<store, readPage>>

\* Another client of the wiki edits a page after update_page has read it and
\* before the wiki takes the mutation. (A write at any other time leaves the
\* call with a wiki that Init or an earlier call also yields.)
OtherWriter ==
    /\ call.tool = "update_page" /\ pc = "wait" /\ Len(reqs) = 2
    /\ otherWrites < MaxOtherWrites
    /\ otherWrites' = otherWrites + 1
    /\ \E i \in PageIds :
        /\ store[i].exists
        /\ \/ \E t \in Titles \ {store[i].title} :
                /\ store' = [store EXCEPT ![i].title = t]
                /\ changed' = changed \cup {<<i, "title", t>>}
           \/ \E d \in Descriptions \ {store[i].description} :
                /\ store' = [store EXCEPT ![i].description = d]
                /\ changed' = changed \cup {<<i, "description", d>>}
           \/ \E p \in Paths \ {store[j].path : j \in PageIds} :
                /\ store' = [store EXCEPT ![i].path = p]
                /\ changed' = changed \cup {<<i, "path", p>>}
           \/ /\ store' = [store EXCEPT ![i].tags = <<"other">>, ![i].isPrivate = TRUE]
              /\ UNCHANGED changed
    /\ dirty' = TRUE
    /\ UNCHANGED <<pc, call, reqs, resps, open, clientOut, ret, calls, readPage>>

LastResp == resps[Len(resps)]

\* The end of a call with a fault: the client is closed by a call of
\* aclose() at the end of the block, which an exception skips.
Finish_leak(out, result) ==
    /\ clientOut' = out
    /\ ret' = result
    /\ open' = IF result.k = "raise" THEN open ELSE {}
    /\ pc' = "idle"
    /\ UNCHANGED <<store, call, reqs, resps, calls, otherWrites, dirty, changed, readPage>>

\* The call ends: every `async with` block has been left.
Finish(out, result) ==
    /\ clientOut' = out
    /\ ret' = result
    /\ open' = {}
    /\ pc' = "idle"
    /\ UNCHANGED <<store, call, reqs, resps, calls, otherWrites, dirty, changed, readPage>>

search_wiki_resume ==
    /\ pc = "recv"
    /\ call.tool = "search_wiki"
    /\ Finish(search_pages(LastResp), search_wiki(search_pages(LastResp)))

get_page_resume ==
    /\ pc = "recv"
    /\ call.tool = "get_page"
    /\ LET page == IF call.by_path THEN get_page_by_path(LastResp)
                   ELSE get_page_by_id(LastResp)
       IN Finish(page, get_page(page, call.identifier, call.by_path))

\* create_page (tool), lines 526-530, returns what the client returns.
create_page_resume ==
    /\ pc = "recv"
    /\ call.tool = "create_page"
    /\ Finish(WikiJsClient_create_page(LastResp), WikiJsClient_create_page(LastResp))

\* WikiJsClient.update_page after its read: the read's connection is closed,
\* and the mutation goes out on a new one unless the call ends here.
update_page_read_resume ==
    /\ pc = "recv"
    /\ call.tool = "update_page"
    /\ Len(reqs) = 1
    /\ LET page == get_page_by_id(LastResp)
           pre == update_page_prelim(page, reqs[1].vars.id, call.content)
       IN IF pre.k = "send"
          THEN /\ clientOut' = page
               /\ reqs' = Append(reqs, Request("update", pre.vars))
               /\ open' = {2}
               /\ pc' = "wait"
               /\ UNCHANGED <<store, call, resps, ret, calls, otherWrites, dirty, changed,
                              readPage>>
          ELSE Finish(page, pre)

\* WikiJsClient.update_page after its mutation; the tool returns the result.
update_page_write_resume ==
    /\ pc = "recv"
    /\ call.tool = "update_page"
    /\ Len(reqs) = 2
    /\ Finish(clientOut, update_page_result(LastResp))

Next ==
    \/ search_wiki_call
    \/ get_page_call
    \/ update_page_call
    \/ create_page_call
    \/ ServerFault
    \/ ServerRead
    \/ ServerSearch
    \/ ServerCreate
    \/ ServerUpdate
    \/ ServerRefuse
    \/ OtherWriter
    \/ search_wiki_resume
    \/ get_page_resume
    \/ create_page_resume
    \/ update_page_read_resume
    \/ update_page_write_resume

Spec == Init /\ [][Next]_vars

\* ------------------------------------------------------------------- claims
\* A tool call has run to its end.
Ended == pc = "idle" /\ call.tool # "none"

IsRead(req) == req.op \in {"single", "singleByPath"}

\* The response classes of the adapter, told from the response itself.
IsTransportError(resp) == resp.net = "ok" /\ resp.status # HttpOk

IsApiError(resp) ==
    /\ resp.net = "ok" /\ resp.status = HttpOk /\ resp.parses
    /\ resp.hasErrors /\ ~HasSentinel(resp.errors)

\* A sentinel-coded error, or no error list and a null result field.
IsNotFound(resp) ==
    /\ resp.net = "ok" /\ resp.status = HttpOk /\ resp.parses
    /\ \/ resp.hasErrors /\ HasSentinel(resp.errors)
       \/ ~resp.hasErrors /\ resp.shape = Shape(3, "null")

\* Status 200 and no error list, but the result field or a container on the
\* way to it is absent or null (a read's null result field is NotFound).
IsMalformed(resp, req) ==
    /\ resp.net = "ok" /\ resp.status = HttpOk /\ resp.parses /\ ~resp.hasErrors
    /\ resp.shape.end \in {"absent", "null"}
    /\ ~(IsRead(req) /\ resp.shape = Shape(3, "null"))

ReadFailed(resp) == IsNotFound(resp) \/ IsTransportError(resp) \/ IsApiError(resp)

\* s contains sub as a run of chunks.
Contains(s, sub) ==
    \E i \in 1..(Len(s) - Len(sub) + 1) : SubSeq(s, i, i + Len(sub) - 1) = sub

\* C1: update_page never sends the update mutation when its preliminary read
\* ended in NotFound, TransportError or ApiError: the read is then the only
\* request the call has sent, while it runs and when it has ended.
C1_NoMutationAfterFailedRead ==
    (call.tool = "update_page" /\ Len(resps) >= 1 /\ ReadFailed(resps[1]))
        => (Len(reqs) = 1 /\ reqs[1].op = "single")

\* C1 witness: an update whose read was answered with an error list has ended
\* with one request sent.
C1_Witness ==
    /\ Ended /\ call.tool = "update_page"
    /\ Len(resps) = 1 /\ IsApiError(resps[1]) /\ Len(reqs) = 1

\* C2: when the preliminary read of update_page ends in NotFound,
\* TransportError or ApiError, update_page ends by returning a string that
\* is an error message, not by raising.
C2_FailedReadReturnsErrorString ==
    (Ended /\ call.tool = "update_page" /\ Len(resps) >= 1 /\ ReadFailed(resps[1]))
        => (ret.k = "return" /\ ret.val.t = "str")

\* C3: the mutation update_page sends carries the title, description and path
\* its read returned and the new content; and when the wiki has taken it with
\* no other writer in between, reading the page again yields the same title,
\* description and path, and the new content.
C3_UpdatePreservesFetchedFields ==
    (call.tool = "update_page" /\ Len(reqs) = 2) =>
        /\ clientOut.k = "return" /\ clientOut.val.t = "dict"
        /\ reqs[2].op = "update"
        /\ reqs[2].vars.id = reqs[1].vars.id
        /\ reqs[2].vars.title = clientOut.val.v.title
        /\ reqs[2].vars.description = clientOut.val.v.description
        /\ reqs[2].vars.path = clientOut.val.v.path
        /\ reqs[2].vars.content = call.content
        /\ (Len(resps) = 2 /\ resps[2].shape.end = "value"
            /\ resps[2].leaf.succeeded /\ ~dirty) =>
               LET again == get_page_by_id(Good(3, PageDict(reqs[1].vars.id)))
               IN /\ again.k = "return" /\ again.val.t = "dict"
                  /\ again.val.v.description = clientOut.val.v.description
                  /\ again.val.v.title = clientOut.val.v.title
                  /\ again.val.v.path = clientOut.val.v.path
                  /\ again.val.v.content = call.content

\* C3 witness: an update of a page whose description is null has been taken by
\* the wiki with no other writer in between.
C3_Witness ==
    /\ Ended /\ call.tool = "update_page" /\ Len(resps) = 2
    /\ resps[2].shape.end = "value" /\ resps[2].leaf.succeeded /\ ~dirty
    /\ clientOut.val.v.description = JNull

C5_NonNumericIdSendsNothing ==
    /\ (call.tool = "get_page" /\ ~call.by_path /\ ~IntParse(call.identifier).ok) =>
          (Ended /\ reqs = <<>> /\ ret = Return(PyStr(NotNumericMessage)))
    /\ (call.tool = "update_page" /\ ~IntParse(call.identifier).ok) =>
          (Ended /\ reqs = <<>> /\ ret = Return(PyStr(PageIdMessage)))

\* C5 witness: get_page by id was called with the identifier x.
C5_Witness ==
    /\ call.tool = "get_page" /\ ~call.by_path /\ call.identifier = <<"x">>
    /\ ret = Return(PyStr(NotNumericMessage))

\* C6: get_page returns the identifier-must-be-numeric message only when the
\* identifier failed to parse, and never after a request has been sent.
C6_NumericMessageOnlyBeforeRequests ==
    (call.tool = "get_page" /\ ret = Return(PyStr(NotNumericMessage))) =>
        (reqs = <<>> /\ ~IntParse(call.identifier).ok)

\* C7: when the client call of search_wiki or get_page returns an error
\* string (TransportError or ApiError), the tool returns that string
\* unchanged.
C7_ErrorsPassThroughUnchanged ==
    (Ended /\ call.tool \in {"search_wiki", "get_page"} /\ Len(resps) = 1
     /\ (IsTransportError(resps[1]) \/ IsApiError(resps[1]))) =>
        (clientOut.k = "return" /\ clientOut.val.t = "str" /\ ret = clientOut)

\* C8: create_page answered with succeeded = true and page.id = N returns a
\* message containing N; answered with succeeded = false and message M it
\* returns a message containing M and no page id; and whatever is raised
\* during the call comes back as a string.
C8_CreateReportsIdOrMessage ==
    (Ended /\ call.tool = "create_page") =>
        /\ ret.k = "return" /\ ret.val.t = "str"
        /\ (resps[1].shape.end = "value" /\ resps[1].leaf.succeeded
            /\ ~resps[1].leaf.pageNull) =>
               Contains(ret.val.v, IntStr(resps[1].leaf.pageId))
        /\ (resps[1].shape.end = "value" /\ ~resps[1].leaf.succeeded) =>
               /\ Contains(ret.val.v, <<Fmt(resps[1].leaf.message)>>)
               /\ \A i \in PageIds \cup {0} : ~Contains(ret.val.v, IntStr(i))
        /\ create_page_try(resps[1]).k = "raise" =>
               Contains(ret.val.v, <<create_page_try(resps[1]).exc>>)

\* C8 witness: create_page has ended after the wiki created the page.
C8_Witness ==
    /\ Ended /\ call.tool = "create_page"
    /\ resps[1].shape.end = "value" /\ resps[1].leaf.succeeded
    /\ Contains(ret.val.v, IntStr(resps[1].leaf.pageId))

IsMalformedMessage(x) ==
    /\ x.t = "str" /\ x.v # <<>>
    /\ x.v[1] \in {"Unexpected response structure: ",
                   "Unexpected response structure from API"}

\* C9: in every client operation a response with status 200 and no error list
\* whose result field, or a container on the way to it, is absent or null is
\* classified as malformed, apart from Success, NotFound and ApiError, and
\* the operation returns a string instead of raising.
C9_MalformedIsReturnedAsSuch ==
    (Ended /\ Len(resps) >= 1 /\ IsMalformed(resps[Len(resps)], reqs[Len(resps)])) =>
        (ret.k = "return" /\ IsMalformedMessage(ret.val))

\* C10: search_wiki returns the no-results message exactly when the search
\* succeeded with an empty result list.
C10_NoResultsIffEmptySuccess ==
    (Ended /\ call.tool = "search_wiki") =>
        (ret = Return(PyStr(NoResultsMessage))
            <=> (resps[1].shape = Shape(4, "value") /\ resps[1].leaf = <<>>))

\* A 2xx success status.
Is2xx(status) == status \div 100 = 2

\* The i-th response has been classified: the client method that awaited it
\* has gone on.
Classified(i) == i <= Len(resps) /\ (pc = "idle" \/ i < Len(reqs))

\* What the client method made of the i-th response: update_page's read is
\* the first, its mutation the second.
OutcomeOf(i) == IF i = 2 THEN ret ELSE clientOut

\* A string that carries the status and the raw body, and nothing parsed
\* from the body.
IsTransportErrorOutcome(o, resp) ==
    /\ o.k = "return" /\ o.val.t = "str"
    /\ o.val.v \in {<<"Error", ": ">> \o IntStr(resp.status) \o <<" - ", resp.text>>,
                    <<"HTTP Error: ">> \o IntStr(resp.status) \o <<" - ", resp.text>>}

\* C11: in every client operation a response that arrived is classified as
\* TransportError, a string of its status and raw body, exactly when its
\* status is not a 2xx status; a response with a 2xx status goes on to the
\* parsing of its body.
C11_TransportErrorIffNot2xx ==
    \A i \in 1..Len(resps) :
        (Classified(i) /\ resps[i].net = "ok") =>
            (IsTransportErrorOutcome(OutcomeOf(i), resps[i]) <=> ~Is2xx(resps[i].status))

\* The mutation of the running update_page was taken by the wiki.
UpdateTaken ==
    /\ call.tool = "update_page" /\ Len(resps) = 2
    /\ resps[2].shape.end = "value" /\ resps[2].leaf.succeeded

\* C12: update_page's read, merge and write are not atomic. The mutation
\* carries the fetched title, description and path and nothing that ties it
\* to the state it read (no version, no lock), so whatever another writer
\* wrote to these fields of the page between the read and the mutation, the
\* page holds the fetched values again once the wiki has taken the mutation.
C12_MutationWritesBackFetchedFields ==
    UpdateTaken =>
        /\ DOMAIN reqs[2].vars = {"id", "title", "content", "description", "editor",
                                  "locale", "isPrivate", "isPublished", "path", "tags"}
        /\ \A w \in changed :
              w[1] = reqs[2].vars.id =>
                  store[w[1]][w[2]] = clientOut.val.v[w[2]]

\* C12 witness: another writer changed the title of the page after the read,
\* the wiki took the mutation, and the page no longer holds what the other
\* writer wrote: its change is lost.
C12_Witness ==
    /\ Ended /\ UpdateTaken
    /\ \E w \in changed :
          /\ w[1] = reqs[2].vars.id /\ w[2] = "title"
          /\ store[w[1]].title # w[3]
          /\ store[w[1]].title = clientOut.val.v.title

\* C13: every request goes out on an httpx.AsyncClient of its own, opened for
\* it and closed before the operation returns, however it ends: while a
\* request is out or being handled, its client is the only one open (the
\* client of update_page's read is closed when the mutation goes out), and
\* when no call runs none is open.
C13_OneConnectionPerRequestAllClosed ==
    /\ pc = "idle" => open = {}
    /\ pc # "idle" => open = {Len(reqs)}

\* C13 witness: update_page has ended by raising out of its mutation, whose
\* request failed in transport, after a read on another client.
C13_Witness ==
    /\ Ended /\ call.tool = "update_page" /\ Len(reqs) = 2
    /\ resps[2].net = "fail" /\ ret.k = "raise" /\ open = {}

\* C14: every mutation update_page sends carries tags = [], isPrivate =
\* false, isPublished = true, editor = markdown and locale = en, whatever the
\* page was when it was read; title, description and path are those of the
\* page read; and once the wiki has taken the mutation the page has no tags,
\* is not private and is published.
C14_UpdateSendsFixedTagsAndFlags ==
    (call.tool = "update_page" /\ Len(reqs) = 2) =>
        /\ reqs[2].vars.tags = <<>>
        /\ reqs[2].vars.isPrivate = FALSE
        /\ reqs[2].vars.isPublished = TRUE
        /\ reqs[2].vars.editor = "markdown"
        /\ reqs[2].vars.locale = "en"
        /\ reqs[2].vars.title = readPage.title
        /\ reqs[2].vars.description = readPage.description
        /\ reqs[2].vars.path = readPage.path
        /\ UpdateTaken =>
              /\ store[reqs[2].vars.id].tags = <<>>
              /\ ~store[reqs[2].vars.id].isPrivate
              /\ store[reqs[2].vars.id].isPublished

\* C14 witness: the page was tagged, private and unpublished when update_page
\* read it, and the wiki has taken the mutation: the tag and the flags are
\* gone.
C14_Witness ==
    /\ Ended /\ UpdateTaken
    /\ readPage.tags = <<"tag">> /\ readPage.isPrivate /\ ~readPage.isPublished
    /\ store[reqs[2].vars.id].tags = <<>>
    /\ ~store[reqs[2].vars.id].isPrivate

====
